---- MODULE Spec2Model ----
(***************************************************************************)
(* RTXMU suballocator (include/rtxmu/Suballocator.h).                      *)
(*                                                                         *)
(* The Suballocator object is the record `pool`: m_blocks is the vector    *)
(* of BlockDesc pointers, blockDescs is the heap of BlockDesc objects      *)
(* (createBlock news them, nothing deletes them), subBlocks is the heap of *)
(* SubBlock objects (allocate news one per call; a SubBlockRef* handed to  *)
(* the client is an index into it), alignmentSavings is                    *)
(* m_stats.alignmentSavings.  allocate and free run under                  *)
(* m_threadSafeLock for their whole body, so each is one atomic action.    *)
(***************************************************************************)
EXTENDS Integers, Naturals, Sequences, FiniteSets, TLC

\* ------------------------------------------------------------------ bounds
\* total number of allocate calls in one behaviour
MaxHandles == 4
\* total number of structures built in one behaviour of the manager, and of
\* scratch sub-allocations a call of PopulateUpdateCommandList may leave
MaxBuilds == 2
\* total number of allocate calls of the threads in one behaviour
MaxCalls == 3
\* number of Suballocator instances constructed, and allocate calls on each
MaxInstances == 2
MaxInstanceHandles == 2
\* total number of allocate calls next to a thread that calls getSize
MaxReaderHandles == 3

\* ------------------------------------------------------- program constants
AccelStructAlignment == 256
SizeOfCompactionDescriptor == 8
BlockAlignment == 65536
DefaultSuballocatorBlockSize == 8388608

\* uint64_t arithmetic of m_stats.alignmentSavings.  TLC integers are 32 bit,
\* so the word is narrowed to 30 bits: a subtraction below zero still wraps
\* to a huge value, which is what the arithmetic of the counter is about.
WordModulus == 2^30
AllOnes == WordModulus - 1
Wrap(x) == x % WordModulus

\* constructor arguments (blockSize, allocationAlignment) and the Block
\* type's getAlignment() of the pools that are modelled
Configs ==
    { [m_blockSize |-> 1024, m_allocationAlignment |-> AccelStructAlignment,
       alignment |-> BlockAlignment],
      [m_blockSize |-> 32, m_allocationAlignment |-> SizeOfCompactionDescriptor,
       alignment |-> BlockAlignment] }

\* request sizes offered to allocate.  The pools of acceleration-structure
\* memory: about a quarter, a half, three quarters and the whole of a block,
\* and an oversized request.  The compaction-size pools, which the managers
\* ask for one descriptor at a time: a descriptor, an unaligned size below it
\* and an oversized request.
Requests(cfg) ==
    LET q == cfg.m_blockSize \div 4
    IN  IF cfg.m_allocationAlignment = SizeOfCompactionDescriptor
        THEN {SizeOfCompactionDescriptor - 3, SizeOfCompactionDescriptor, 4 * q + 1}
        ELSE IF cfg.m_blockSize = DefaultSuballocatorBlockSize
        THEN {2048, 1800, 1700, 600}
        ELSE {q - 3, 2 * q, 3 * q - 1, 4 * q, 4 * q + 1}

NULL == 0

\* ---------------------------------------------------------------- helpers
RECURSIVE BitAnd(_, _)
BitAnd(a, b) ==
    IF a = 0 \/ b = 0 THEN 0
    ELSE (a % 2) * (b % 2) + 2 * BitAnd(a \div 2, b \div 2)

\* the mask taken as ~alignment
align_wrongMask(size, alignment) ==
    LET t == size + (alignment - 1)
    IN  t - BitAnd(t, alignment)

\* ((size + (alignment - 1)) & ~(alignment - 1))
align(size, alignment) ==
    LET t == size + (alignment - 1)
    IN  t - BitAnd(t, alignment - 1)

RemoveAt(s, i) == [j \in 1..(Len(s) - 1) |-> IF j < i THEN s[j] ELSE s[j + 1]]

\* the reused entry left in the list
eraseFreeSubBlock_keep(freeSubBlocks, i) == freeSubBlocks

\* the first entry erased, whichever entry was chosen
eraseFreeSubBlock_first(freeSubBlocks, i) == RemoveAt(freeSubBlocks, 1)

\* freeSubBlocks.erase(iter)
eraseFreeSubBlock(freeSubBlocks, i) == RemoveAt(freeSubBlocks, i)

\* m_blocks.erase(m_blocks.begin() + blockIndex), blockIndex counted from 1
eraseBlock(blocks, i) == RemoveAt(blocks, i)

\* Block::getVMA(): the address of the resource / memory the block owns
getVMA(blockDesc) == blockDesc.vma

\* Block::getAlignment()
getAlignment(S) == S.cfg.alignment

\* ------------------------------------------------------------ createBlock
createBlock(S, blockAllocationSize) ==
    LET id == Len(S.blockDescs) + 1
        newBlock == [vma |-> id, resident |-> TRUE, freeSubBlocks |-> <<>>,
                     currentOffset |-> 0, size |-> blockAllocationSize,
                     numSubBlocks |-> 0]
    IN  [S EXCEPT !.blockDescs = Append(@, newBlock),
                  !.m_blocks = Append(@, id)]

\* ------------------------------------------------------- findFreeSubBlock
\* the loop without the test sizeInBytes <= freeSubBlockIter->size: regions
\* smaller than the request are candidates by the distance of their size
RECURSIVE ScanFreeSubBlocks_anySize(_, _, _, _, _)
ScanFreeSubBlocks_anySize(fl, i, sizeInBytes, minIter, minUnused) ==
    IF i > Len(fl)
    THEN [exact |-> 0, minIter |-> minIter, minUnused |-> minUnused]
    ELSE IF fl[i].size - sizeInBytes = 0
         THEN [exact |-> i, minIter |-> minIter, minUnused |-> minUnused]
         ELSE LET unusedMemory == IF fl[i].size > sizeInBytes
                                  THEN fl[i].size - sizeInBytes
                                  ELSE sizeInBytes - fl[i].size
              IN  IF unusedMemory < minUnused
                  THEN ScanFreeSubBlocks_anySize(fl, i + 1, sizeInBytes, i, unusedMemory)
                  ELSE ScanFreeSubBlocks_anySize(fl, i + 1, sizeInBytes, minIter, minUnused)

\* the while loop over freeSubBlocks: exact is the index of the entry the
\* loop broke at (0: none), minIter the tracked minimum (0: end())
RECURSIVE ScanFreeSubBlocks(_, _, _, _, _)
ScanFreeSubBlocks(fl, i, sizeInBytes, minIter, minUnused) ==
    IF i > Len(fl)
    THEN [exact |-> 0, minIter |-> minIter, minUnused |-> minUnused]
    ELSE IF sizeInBytes <= fl[i].size
         THEN IF fl[i].size - sizeInBytes = 0
              THEN [exact |-> i, minIter |-> minIter, minUnused |-> minUnused]
              ELSE LET unusedMemory == fl[i].size - sizeInBytes
                   IN  IF unusedMemory < minUnused
                       THEN ScanFreeSubBlocks(fl, i + 1, sizeInBytes, i, unusedMemory)
                       ELSE ScanFreeSubBlocks(fl, i + 1, sizeInBytes, minIter, minUnused)
         ELSE ScanFreeSubBlocks(fl, i + 1, sizeInBytes, minIter, minUnused)

\* the factor 2 put on the slack instead of the request
AcceptSlack_factorOnSlack(minUnused, sizeInBytes) == 2 * minUnused < sizeInBytes

\* a slack of exactly twice the request accepted too
AcceptSlack_orEqual(minUnused, sizeInBytes) == minUnused <= 2 * sizeInBytes

\* the acceptance test of the minimum-slack candidate
AcceptSlack(minUnused, sizeInBytes) == minUnused < 2 * sizeInBytes

\* a reused region not counted in numSubBlocks
findFreeSubBlock_noCount(S, bid, subBlock, sizeInBytes) ==
    LET block == S.blockDescs[bid]
        fl    == block.freeSubBlocks
        scan  == ScanFreeSubBlocks(fl, 1, sizeInBytes, 0, AllOnes)
    IN  IF scan.exact # 0
        THEN [found |-> TRUE, path |-> "exact",
              subBlock |-> [subBlock EXCEPT !.size = fl[scan.exact].size,
                                            !.offset = fl[scan.exact].offset],
              S |-> [S EXCEPT !.blockDescs[bid].freeSubBlocks = eraseFreeSubBlock(fl, scan.exact)]]
        ELSE IF scan.minIter # 0 /\ AcceptSlack(scan.minUnused, sizeInBytes)
        THEN LET region == fl[scan.minIter]
                 memoryAlignedSize == align(region.size, getAlignment(S))
                 newMemoryAlignedSize == align(sizeInBytes, getAlignment(S))
                 savings1 == Wrap(S.alignmentSavings - (memoryAlignedSize - region.size))
                 savings2 == Wrap(savings1 + (newMemoryAlignedSize - sizeInBytes))
             IN  [found |-> TRUE, path |-> "slack",
                  subBlock |-> [subBlock EXCEPT !.size = region.size,
                                                !.offset = region.offset,
                                                !.unusedSize = region.size - sizeInBytes],
                  S |-> [S EXCEPT !.blockDescs[bid].freeSubBlocks = eraseFreeSubBlock(fl, scan.minIter),
                                  !.alignmentSavings = savings2]]
        ELSE [found |-> FALSE, path |-> "none", subBlock |-> subBlock, S |-> S]

findFreeSubBlock(S, bid, subBlock, sizeInBytes) ==
    LET block == S.blockDescs[bid]
        fl    == block.freeSubBlocks
        scan  == ScanFreeSubBlocks(fl, 1, sizeInBytes, 0, AllOnes)
    IN  IF scan.exact # 0
        THEN [found |-> TRUE, path |-> "exact",
              subBlock |-> [subBlock EXCEPT !.size = fl[scan.exact].size,
                                            !.offset = fl[scan.exact].offset],
              S |-> [S EXCEPT !.blockDescs[bid].freeSubBlocks = eraseFreeSubBlock(fl, scan.exact),
                              !.blockDescs[bid].numSubBlocks = @ + 1]]
        ELSE IF scan.minIter # 0 /\ AcceptSlack(scan.minUnused, sizeInBytes)
        THEN LET region == fl[scan.minIter]
                 memoryAlignedSize == align(region.size, getAlignment(S))
                 newMemoryAlignedSize == align(sizeInBytes, getAlignment(S))
                 savings1 == Wrap(S.alignmentSavings - (memoryAlignedSize - region.size))
                 savings2 == Wrap(savings1 + (newMemoryAlignedSize - sizeInBytes))
             IN  [found |-> TRUE, path |-> "slack",
                  subBlock |-> [subBlock EXCEPT !.size = region.size,
                                                !.offset = region.offset,
                                                !.unusedSize = region.size - sizeInBytes],
                  S |-> [S EXCEPT !.blockDescs[bid].freeSubBlocks = eraseFreeSubBlock(fl, scan.minIter),
                                  !.blockDescs[bid].numSubBlocks = @ + 1,
                                  !.alignmentSavings = savings2]]
        ELSE [found |-> FALSE, path |-> "none", subBlock |-> subBlock, S |-> S]

\* --------------------------------------------------------------- allocate
\* the last block taken for one more to come
IsLastBlock_offByOne(blockIndex, numBlocks) == blockIndex = numBlocks

\* every block that cannot serve taken for the last one
IsLastBlock_always(blockIndex, numBlocks) == TRUE

\* "if all blocks traversed": the block being tried is the last one
IsLastBlock(blockIndex, numBlocks) == blockIndex = numBlocks - 1

\* the for loop over the blocks of the normal path; subBlock.blockDesc stays
\* NULL when the loop runs out of blocks without assigning one
RECURSIVE AllocateScan(_, _, _, _, _, _)
AllocateScan(S, subBlock, blockIndex, numBlocks, sizeInBytes, unalignedSize) ==
    IF blockIndex >= numBlocks
    THEN [S |-> S, subBlock |-> subBlock, path |-> "unassigned"]
    ELSE LET bid == S.m_blocks[blockIndex + 1]
             f   == findFreeSubBlock(S, bid, subBlock, sizeInBytes)
         IN  IF f.found
             THEN [S |-> f.S, subBlock |-> [f.subBlock EXCEPT !.blockDesc = bid],
                   path |-> f.path]
             ELSE LET block == S.blockDescs[bid]
                      offsetInBytes == block.currentOffset + sizeInBytes
                  IN  IF offsetInBytes <= block.size
                      THEN LET memoryAlignedSize == align(sizeInBytes, getAlignment(S))
                           IN  [S |-> [S EXCEPT !.alignmentSavings =
                                                    Wrap(@ + (memoryAlignedSize - sizeInBytes)),
                                                !.blockDescs[bid].currentOffset = offsetInBytes,
                                                !.blockDescs[bid].numSubBlocks = @ + 1],
                                subBlock |-> [subBlock EXCEPT !.size = sizeInBytes,
                                                              !.offset = block.currentOffset,
                                                              !.unusedSize = sizeInBytes - unalignedSize,
                                                              !.blockDesc = bid],
                                path |-> "bump"]
                      ELSE IF IsLastBlock(blockIndex, numBlocks)
                           THEN LET newBlockSize == IF sizeInBytes > S.cfg.m_blockSize
                                                    THEN sizeInBytes ELSE S.cfg.m_blockSize
                                IN  AllocateScan(createBlock(S, newBlockSize), subBlock,
                                                 blockIndex + 1, numBlocks + 1,
                                                 sizeInBytes, unalignedSize)
                           ELSE AllocateScan(S, subBlock, blockIndex + 1, numBlocks,
                                             sizeInBytes, unalignedSize)

\* the new SubBlock{ SubBlockRef(), 0, 0, 0, 0 } of allocate
NewSubBlock == [blockDesc |-> NULL, offset |-> 0, size |-> 0, unusedSize |-> 0,
                isFree |-> FALSE]

\* the oversized branch with currentOffset of the new block left at 0
allocateOversized_noAdvance(S, subBlock, sizeInBytes, unalignedSize) ==
    LET S1    == createBlock(S, sizeInBytes)
        bid   == S1.m_blocks[Len(S1.m_blocks)]
        block == S1.blockDescs[bid]
    IN  [S |-> [S1 EXCEPT !.blockDescs[bid].numSubBlocks = @ + 1],
         subBlock |-> [subBlock EXCEPT !.blockDesc = bid,
                                       !.size = sizeInBytes,
                                       !.offset = block.currentOffset,
                                       !.unusedSize = sizeInBytes - unalignedSize],
         path |-> "oversized"]

\* the oversized branch of allocate
allocateOversized(S, subBlock, sizeInBytes, unalignedSize) ==
    LET S1    == createBlock(S, sizeInBytes)
        bid   == S1.m_blocks[Len(S1.m_blocks)]
        block == S1.blockDescs[bid]
    IN  [S |-> [S1 EXCEPT !.blockDescs[bid].currentOffset = block.currentOffset + sizeInBytes,
                          !.blockDescs[bid].numSubBlocks = @ + 1],
         subBlock |-> [subBlock EXCEPT !.blockDesc = bid,
                                       !.size = sizeInBytes,
                                       !.offset = block.currentOffset,
                                       !.unusedSize = sizeInBytes - unalignedSize],
         path |-> "oversized"]

\* allocate(unalignedSize): the pool after the call; the handle returned is
\* the last element of subBlocks
allocate(S, unalignedSize) ==
    LET sizeInBytes == align(unalignedSize, S.cfg.m_allocationAlignment)
        S0 == IF Len(S.m_blocks) = 0 /\ sizeInBytes <= S.cfg.m_blockSize
              THEN createBlock(S, IF sizeInBytes > S.cfg.m_blockSize
                                  THEN sizeInBytes ELSE S.cfg.m_blockSize)
              ELSE S
        numBlocks == Len(S0.m_blocks)
        r  == IF sizeInBytes > S.cfg.m_blockSize
              THEN allocateOversized(S0, NewSubBlock, sizeInBytes, unalignedSize)
              ELSE AllocateScan(S0, NewSubBlock, 0, numBlocks, sizeInBytes, unalignedSize)
    IN  [r.S EXCEPT !.subBlocks = Append(@, r.subBlock)]

\* ------------------------------------------------------------------- free
\* index (from 1) of the first block of m_blocks whose getVMA() equals vma,
\* 0 when the loop ends without a match
RECURSIVE FindBlockIndex(_, _, _)
FindBlockIndex(S, vma, i) ==
    IF i > Len(S.m_blocks) THEN 0
    ELSE IF getVMA(S.blockDescs[S.m_blocks[i]]) = vma THEN i
         ELSE FindBlockIndex(S, vma, i + 1)

\* the whole-block release never taken
IsWholeBlock_never(subBlock, blockDesc) == FALSE

\* the test that sends free to the whole-block release
IsWholeBlock(subBlock, blockDesc) == subBlock.size = blockDesc.size

\* an emptied block kept whatever the number of blocks
ReleaseEmptyBlock_never(numSubBlocks, blockCount) == FALSE

\* the block released whatever it still holds
ReleaseEmptyBlock_anyCount(numSubBlocks, blockCount) == blockCount > 1

\* the test that releases a block that has become empty
ReleaseEmptyBlock(numSubBlocks, blockCount) == numSubBlocks = 0 /\ blockCount > 1

\* the handle left unmarked
setIsFree_skip(subBlock) == subBlock

\* subBlock->isFree = true
setIsFree(subBlock) == [subBlock EXCEPT !.isFree = TRUE]

free(S, h) ==
    LET subBlock == S.subBlocks[h]
        i == FindBlockIndex(S, getVMA(S.blockDescs[subBlock.blockDesc]), 1)
    IN  IF i = 0 THEN S
        ELSE LET bid       == S.m_blocks[i]
                 blockDesc == S.blockDescs[bid]
                 memoryAlignedSize == align(subBlock.size, getAlignment(S))
                 S1 == [S EXCEPT !.subBlocks[h] = setIsFree(@)]
             IN  IF IsWholeBlock(subBlock, blockDesc)
                 THEN [S1 EXCEPT !.blockDescs[bid].resident = FALSE,
                                 !.m_blocks = eraseBlock(@, i)]
                 ELSE LET freeSubBlock == [blockDesc |-> subBlock.blockDesc,
                                           offset |-> subBlock.offset,
                                           size |-> subBlock.size,
                                           unusedSize |-> 0, isFree |-> FALSE]
                          S2 == [S1 EXCEPT !.blockDescs[bid].freeSubBlocks = Append(@, freeSubBlock),
                                           !.alignmentSavings =
                                               Wrap(@ - (memoryAlignedSize - subBlock.size)),
                                           !.blockDescs[bid].numSubBlocks = Wrap(@ - 1)]
                      IN  IF ReleaseEmptyBlock(S2.blockDescs[bid].numSubBlocks, Len(S2.m_blocks))
                          THEN [S2 EXCEPT !.blockDescs[bid].resident = FALSE,
                                          !.m_blocks = eraseBlock(@, i)]
                          ELSE S2

\* ---------------------------------------------------------------- getters
RECURSIVE SumSizes(_)
SumSizes(s) == IF Len(s) = 0 THEN 0 ELSE s[1].size + SumSizes(Tail(s))

\* getSize(): the sum of the sizes of the blocks of m_blocks
getSize(S) == SumSizes([i \in 1..Len(S.m_blocks) |-> S.blockDescs[S.m_blocks[i]]])

\* totalUnusedMemory of getFragmentation: per block, the free-list sizes
\* plus the tail from currentOffset to the block's size
RECURSIVE TotalUnusedMemory(_, _)
TotalUnusedMemory(S, i) ==
    IF i > Len(S.m_blocks) THEN 0
    ELSE LET blockDesc == S.blockDescs[S.m_blocks[i]]
         IN  SumSizes(blockDesc.freeSubBlocks)
             + (blockDesc.size - blockDesc.currentOffset)
             + TotalUnusedMemory(S, i + 1)

\* the tail taken as the whole block
tailFreeSubBlock_wholeBlock(blockDesc) == blockDesc.size

\* tailFreeSubBlock of getFragmentation
tailFreeSubBlock(blockDesc) == blockDesc.size - blockDesc.currentOffset

RECURSIVE SumSquares(_)
SumSquares(s) == IF Len(s) = 0 THEN 0 ELSE s[1].size * s[1].size + SumSquares(Tail(s))

\* quality and totalUnusedMemory of getFragmentation after the loop over
\* the blocks from index i on
RECURSIVE FragmentationSums(_, _)
FragmentationSums(S, i) ==
    IF i > Len(S.m_blocks) THEN [quality |-> 0, totalUnusedMemory |-> 0]
    ELSE LET blockDesc == S.blockDescs[S.m_blocks[i]]
             tail == tailFreeSubBlock(blockDesc)
             rest == FragmentationSums(S, i + 1)
         IN  [quality |-> SumSquares(blockDesc.freeSubBlocks) + tail * tail + rest.quality,
              totalUnusedMemory |-> SumSizes(blockDesc.freeSubBlocks) + tail
                                    + rest.totalUnusedMemory]

\* getFragmentation(): the value returned, (1 - quality / total^2) * 100, as
\* the fraction num / den of 1 (the factor 100 left out); 0.0 is num = 0.
\* sqrt of a perfect square below 2^53 is exact in double arithmetic, so the
\* value is 0.0 exactly when quality = total^2 or the early return is taken
getFragmentation(S) ==
    LET sums == FragmentationSums(S, 1)
        q == sums.quality
        t == sums.totalUnusedMemory
    IN  IF q = 0 \/ t = 0
        THEN [num |-> 0, den |-> 1, totalUnusedMemory |-> t]
        ELSE [num |-> t * t - q, den |-> t * t, totalUnusedMemory |-> t]

\* getStats(): totalResidentMemorySize, alignmentSavings, unusedSize
getStats(S) ==
    [totalResidentMemorySize |-> getSize(S),
     alignmentSavings |-> S.alignmentSavings,
     unusedSize |-> TotalUnusedMemory(S, 1)]

\* Suballocator(blockSize, allocationAlignment, allocator)
Suballocator(cfg) ==
    [cfg |-> cfg, m_blocks |-> <<>>, blockDescs |-> <<>>, subBlocks |-> <<>>,
     alignmentSavings |-> 0]

\* ------------------------------------------ acceleration structure manager
\* DxAccelStructManager (src/D3D12AccelStructManager.cpp) on top of
\* AccelStructManager<T> (include/rtxmu/AccelStructManager.h).  The manager is
\* the record M: its seven pools under their member names, objects the heap
\* of DxAccelerationStructure objects made by new T(), m_asBufferBuildQueue
\* the vector of pointers into that heap (NULL: nullptr; element id of the
\* vector is at position id + 1), m_asIdFreeList and m_asId.  A SubAllocation
\* held by a structure is [pool, subBlock]: the pool whose allocate returned
\* it and the index of the SubBlock in that pool's heap of SubBlocks.
\* VkAccelStructManager has the same Reset, IsValid, PostBuildRelease and
\* ReleaseAccelerationStructures with one query pool in place of the two
\* compaction-size pools.
ReservedId == 0

\* the statements after a call work on the one object the call left: rest
\* applied to the value of result
Bind(result, rest(_)) == CHOOSE after \in {rest(before) : before \in {result}} : TRUE

\* the block size Initialize is called with, and the block size of the
\* compaction-size pools (65536 in the source: 8192 descriptors), scaled
\* down to one descriptor per block with room to spare, so that two
\* structures take two blocks and no sub-allocation is a whole block
SuballocatorBlockSize == 1024
CompactionSizeSuballocationBlockSize ==
    SizeOfCompactionDescriptor + SizeOfCompactionDescriptor \div 2

NoMemory == [pool |-> "none", subBlock |-> NULL]

\* new T(): a DxAccelerationStructure with its default member values;
\* allocated is the set of sub-allocations made on its behalf, removed tells
\* a delete by ReleaseAccelStructId from one by Reset (neither is a member)
NewAccelStruct ==
    [compactionSize |-> 0, resultSize |-> 0, scratchSize |-> 0,
     isCompacted |-> FALSE, requestedCompaction |-> FALSE, readyToFree |-> FALSE,
     scratchGpuMemory |-> NoMemory, updateGpuMemory |-> NoMemory,
     resultGpuMemory |-> NoMemory, compactionGpuMemory |-> NoMemory,
     compactionSizeGpuMemory |-> NoMemory, compactionSizeCpuMemory |-> NoMemory,
     deleted |-> FALSE, removed |-> FALSE, allocated |-> {}]

\* delete accelStruct: the object is gone, its storage holds nothing of use
deleteAccelStruct(accelStruct, byRemove) ==
    [NewAccelStruct EXCEPT !.deleted = TRUE, !.removed = byRemove,
                           !.allocated = accelStruct.allocated]

\* DxAccelStructManager::Initialize
Initialize(M, suballocatorBlockSize) ==
    LET asPool == Suballocator([m_blockSize |-> suballocatorBlockSize,
                                m_allocationAlignment |-> AccelStructAlignment,
                                alignment |-> BlockAlignment])
        sizePool == Suballocator([m_blockSize |-> CompactionSizeSuballocationBlockSize,
                                  m_allocationAlignment |-> SizeOfCompactionDescriptor,
                                  alignment |-> BlockAlignment])
    IN  [M EXCEPT !.m_suballocationBlockSize = suballocatorBlockSize,
                  !.m_scratchPool = asPool,
                  !.m_updatePool = asPool,
                  !.m_resultPool = asPool,
                  !.m_transientResultPool = asPool,
                  !.m_compactionPool = asPool,
                  !.m_compactionSizeGpuPool = sizePool,
                  !.m_compactionSizeCpuPool = sizePool]

\* DxAccelStructManager(device, verbosity): the members after construction.
\* accelStructIds is the caller's vector that PopulateBuildCommandList pushes
\* the ids to (passed by reference; not a member); commandList is what the
\* last PopulateUpdateCommandList recorded in the command list it was given;
\* foreignFrees are the calls pool->free(memory) made with a sub-allocation
\* that another pool's allocate returned
DxAccelStructManager ==
    [m_suballocationBlockSize |-> 0,
     m_totalUncompactedMemory |-> 0, m_totalCompactedMemory |-> 0,
     m_asBufferBuildQueue |-> <<NULL>>, m_asIdFreeList |-> <<>>,
     m_asId |-> ReservedId + 1, objects |-> <<>>, accelStructIds |-> <<>>,
     commandList |-> <<>>, foreignFrees |-> {},
     m_scratchPool |-> NULL, m_updatePool |-> NULL, m_resultPool |-> NULL,
     m_transientResultPool |-> NULL, m_compactionPool |-> NULL,
     m_compactionSizeGpuPool |-> NULL, m_compactionSizeCpuPool |-> NULL]

\* m_asId read and not incremented
GetAccelStructId_noIncrement(M) ==
    LET o  == Len(M.objects) + 1
        M0 == [M EXCEPT !.objects = Append(@, NewAccelStruct)]
    IN  IF Len(M.m_asIdFreeList) > 0
        THEN LET asId == Head(M.m_asIdFreeList)
             IN  [M |-> [M0 EXCEPT !.m_asBufferBuildQueue[asId + 1] = o,
                                   !.m_asIdFreeList = Tail(@)],
                  asId |-> asId]
        ELSE [M |-> [M0 EXCEPT !.m_asBufferBuildQueue = Append(@, o)],
              asId |-> M.m_asId]

\* AccelStructManager::GetAccelStructId: the manager after the call and the
\* id returned
GetAccelStructId(M) ==
    LET o  == Len(M.objects) + 1
        M0 == [M EXCEPT !.objects = Append(@, NewAccelStruct)]
    IN  IF Len(M.m_asIdFreeList) > 0
        THEN LET asId == Head(M.m_asIdFreeList)
             IN  [M |-> [M0 EXCEPT !.m_asBufferBuildQueue[asId + 1] = o,
                                   !.m_asIdFreeList = Tail(@)],
                  asId |-> asId]
        ELSE [M |-> [M0 EXCEPT !.m_asBufferBuildQueue = Append(@, o),
                               !.m_asId = @ + 1],
              asId |-> M.m_asId]

\* the element of the vector left pointing to the deleted structure
ReleaseAccelStructId_keepPointer(M, accelStructId) ==
    LET o == M.m_asBufferBuildQueue[accelStructId + 1]
    IN  [M EXCEPT !.m_asIdFreeList = Append(@, accelStructId),
                  !.objects[o] = deleteAccelStruct(@, TRUE)]

\* AccelStructManager::ReleaseAccelStructId
ReleaseAccelStructId(M, accelStructId) ==
    LET o == M.m_asBufferBuildQueue[accelStructId + 1]
    IN  [M EXCEPT !.m_asIdFreeList = Append(@, accelStructId),
                  !.objects[o] = deleteAccelStruct(@, TRUE),
                  !.m_asBufferBuildQueue[accelStructId + 1] = NULL]

\* SubBlockRef::getSize() and SubBlockRef::isFree() of a sub-allocation
SubBlockGetSize(M, memory) == M[memory.pool].subBlocks[memory.subBlock].size
SubBlockIsFree(M, memory) == M[memory.pool].subBlocks[memory.subBlock].isFree

\* structure o's member f = the named pool's allocate(size)
AllocateMember(M, o, f, poolName, size) ==
    Bind(allocate(M[poolName], size), LAMBDA P :
    LET memory == [pool |-> poolName, subBlock |-> Len(P.subBlocks)]
    IN  [M EXCEPT ![poolName] = P,
                  !.objects[o][f] = memory,
                  !.objects[o].allocated = @ \cup {memory}])

\* the named pool's free(memory.subBlock).  A SubBlock of another pool names
\* a block whose getVMA() no block of this pool has: free finds nothing
PoolFree(M, poolName, memory) ==
    IF memory.pool = poolName
    THEN [M EXCEPT ![poolName] = free(M[poolName], memory.subBlock)]
    ELSE [M EXCEPT !.foreignFrees = @ \cup {[pool |-> poolName, memory |-> memory]}]

\* the test that guards every free of the manager
IsAllocated(M, memory) == memory.subBlock # NULL /\ SubBlockIsFree(M, memory) = FALSE

\* the compaction-size memory of the readback side left out
AllocateCompactionSizeMemory_gpuOnly(M, o) ==
    AllocateMember(M, o, "compactionSizeGpuMemory", "m_compactionSizeGpuPool",
                   SizeOfCompactionDescriptor)

\* the two compaction-size sub-allocations of a build that allows compaction
AllocateCompactionSizeMemory(M, o) ==
    Bind(AllocateMember(M, o, "compactionSizeGpuMemory", "m_compactionSizeGpuPool",
                        SizeOfCompactionDescriptor), LAMBDA M1 :
    AllocateMember(M1, o, "compactionSizeCpuMemory", "m_compactionSizeCpuPool",
                   SizeOfCompactionDescriptor))

\* one iteration of the loop of PopulateBuildCommandList.  input is what
\* asInputs[buildIndex].Flags and the device's prebuild info hold
BuildOne(M, input) ==
    Bind(GetAccelStructId(M), LAMBDA g :
    Bind([g.M EXCEPT !.accelStructIds = Append(@, g.asId)], LAMBDA M0 :
    LET o == M0.m_asBufferBuildQueue[g.asId + 1] IN
    Bind(AllocateMember(M0, o, "resultGpuMemory",
                        IF input.allowCompaction THEN "m_transientResultPool"
                                                 ELSE "m_resultPool",
                        input.ResultDataMaxSizeInBytes), LAMBDA M1 :
    Bind(IF input.allowUpdate
         THEN AllocateMember(M1, o, "updateGpuMemory", "m_updatePool",
                             input.UpdateScratchDataSizeInBytes)
         ELSE M1, LAMBDA M2 :
    Bind(AllocateMember(M2, o, "scratchGpuMemory", "m_scratchPool",
                        input.ScratchDataSizeInBytes), LAMBDA M3 :
    LET resultSize == SubBlockGetSize(M3, M3.objects[o].resultGpuMemory) IN
    Bind([M3 EXCEPT !.objects[o].scratchSize =
                        SubBlockGetSize(M3, M3.objects[o].scratchGpuMemory),
                    !.m_totalUncompactedMemory = Wrap(@ + resultSize),
                    !.objects[o].resultSize = resultSize,
                    !.objects[o].isCompacted = FALSE,
                    !.objects[o].requestedCompaction = input.allowCompaction],
         LAMBDA M4 :
    IF input.allowCompaction THEN AllocateCompactionSizeMemory(M4, o) ELSE M4))))))

\* DxAccelStructManager::PopulateBuildCommandList
RECURSIVE PopulateBuildCommandList(_, _)
PopulateBuildCommandList(M, asInputs) ==
    IF Len(asInputs) = 0 THEN M
    ELSE Bind(BuildOne(M, Head(asInputs)), LAMBDA M1 :
              PopulateBuildCommandList(M1, Tail(asInputs)))

\* the copy made without the test of isCompacted
CopyCompaction_again(M, accelStructId, compactionSize) ==
    LET o == M.m_asBufferBuildQueue[accelStructId + 1]
    IN  Bind(AllocateMember(M, o, "compactionGpuMemory", "m_compactionPool",
                            compactionSize), LAMBDA M1 :
        LET size == SubBlockGetSize(M1, M1.objects[o].compactionGpuMemory)
        IN  [M1 EXCEPT !.objects[o].compactionSize = size,
                       !.m_totalCompactedMemory = Wrap(@ + size),
                       !.objects[o].isCompacted = TRUE])

\* DxAccelStructManager::CopyCompaction; compactionSize is the value read
\* back from the compaction-size memory
CopyCompaction(M, accelStructId, compactionSize) ==
    LET o == M.m_asBufferBuildQueue[accelStructId + 1]
        accelStruct == M.objects[o]
    IN  IF accelStruct.isCompacted = FALSE /\ accelStruct.requestedCompaction = TRUE
        THEN Bind(AllocateMember(M, o, "compactionGpuMemory", "m_compactionPool",
                                 compactionSize), LAMBDA M1 :
             LET size == SubBlockGetSize(M1, M1.objects[o].compactionGpuMemory)
             IN  [M1 EXCEPT !.objects[o].compactionSize = size,
                            !.m_totalCompactedMemory = Wrap(@ + size),
                            !.objects[o].isCompacted = TRUE])
        ELSE M

\* DxAccelStructManager::PopulateCompactionCommandList
RECURSIVE PopulateCompactionCommandList(_, _, _)
PopulateCompactionCommandList(M, accelStructIds, compactionSize) ==
    IF Len(accelStructIds) = 0 THEN M
    ELSE LET accelStructId == Head(accelStructIds)
             o  == M.m_asBufferBuildQueue[accelStructId + 1]
         IN  Bind(IF M.objects[o].requestedCompaction = TRUE
                  THEN CopyCompaction(M, accelStructId, compactionSize)
                  ELSE M, LAMBDA M1 :
             PopulateCompactionCommandList(M1, Tail(accelStructIds), compactionSize))

\* the sub-allocation behind GetAccelStructGPUVA(accelStructId)
GetAccelStructGPUVA(M, accelStructId) ==
    LET accelStruct == M.objects[M.m_asBufferBuildQueue[accelStructId + 1]]
    IN  IF accelStruct.isCompacted THEN accelStruct.compactionGpuMemory
                                   ELSE accelStruct.resultGpuMemory

\* whether a sub-allocation is in use: made, not freed, and in a block its
\* pool still holds
LiveIn(M, memory) ==
    /\ memory.subBlock # NULL
    /\ ~SubBlockIsFree(M, memory)
    /\ M[memory.pool].subBlocks[memory.subBlock].blockDesc \in
           {M[memory.pool].m_blocks[i] : i \in 1..Len(M[memory.pool].m_blocks)}

\* commandList->BuildRaytracingAccelerationStructure(&buildDesc, 0, nullptr):
\* the build description recorded, with whether the memory it names is in
\* use at that moment
BuildRaytracingAccelerationStructure(M, accelStructId, scratch, dest) ==
    [M EXCEPT !.commandList =
        Append(@, [accelStructId |-> accelStructId,
                   ScratchAccelerationStructureData |-> scratch,
                   DestAccelerationStructureData |-> dest,
                   scratchIsLive |-> LiveIn(M, scratch),
                   destIsLive |-> LiveIn(M, dest)])]

\* the memory stores of the structure are adequate for the rebuild
RebuildMemoryTooSmall(M, accelStruct, input) ==
    \/ SubBlockGetSize(M, accelStruct.scratchGpuMemory) < input.ScratchDataSizeInBytes
    \/ SubBlockGetSize(M, accelStruct.resultGpuMemory) < input.ResultDataMaxSizeInBytes

\* one iteration of the loop of PopulateUpdateCommandList.  input is what
\* asInputs[buildIndex].Flags and the device's prebuild info hold
UpdateOne(M, accelStructId, input) ==
    LET o == M.m_asBufferBuildQueue[accelStructId + 1] IN
    IF input.performUpdate /\ input.allowUpdate
    THEN BuildRaytracingAccelerationStructure(M, accelStructId,
             M.objects[o].updateGpuMemory, GetAccelStructGPUVA(M, accelStructId))
    ELSE Bind(IF RebuildMemoryTooSmall(M, M.objects[o], input)
              THEN Bind(AllocateMember(M, o, "resultGpuMemory", "m_resultPool",
                                       input.ResultDataMaxSizeInBytes), LAMBDA M1 :
                   Bind(AllocateMember(M1, o, "scratchGpuMemory", "m_scratchPool",
                                       input.ScratchDataSizeInBytes), LAMBDA M2 :
                   LET resultSize == SubBlockGetSize(M2, M2.objects[o].resultGpuMemory)
                   IN  [M2 EXCEPT !.objects[o].scratchSize =
                                      SubBlockGetSize(M2, M2.objects[o].scratchGpuMemory),
                                  !.m_totalUncompactedMemory = Wrap(@ + resultSize),
                                  !.objects[o].resultSize = resultSize]))
              ELSE M, LAMBDA M3 :
         Bind(IF \/ M3.objects[o].scratchGpuMemory.subBlock = NULL
                 \/ SubBlockIsFree(M3, M3.objects[o].scratchGpuMemory) = TRUE
              THEN AllocateMember(M3, o, "scratchGpuMemory", "m_scratchPool",
                       SubBlockGetSize(M3, M3.objects[o].scratchGpuMemory))
              ELSE M3, LAMBDA M4 :
         BuildRaytracingAccelerationStructure(M4, accelStructId,
             M4.objects[o].scratchGpuMemory, M4.objects[o].resultGpuMemory)))

\* DxAccelStructManager::PopulateUpdateCommandList, from the second
\* iteration on
RECURSIVE UpdateLoop(_, _, _)
UpdateLoop(M, asInputs, accelStructIds) ==
    IF Len(accelStructIds) = 0 THEN M
    ELSE Bind(UpdateOne(M, Head(accelStructIds), Head(asInputs)), LAMBDA M1 :
              UpdateLoop(M1, Tail(asInputs), Tail(accelStructIds)))

\* DxAccelStructManager::PopulateUpdateCommandList, called with an empty
\* command list
PopulateUpdateCommandList(M, asInputs, accelStructIds) ==
    UpdateLoop([M EXCEPT !.commandList = <<>>], asInputs, accelStructIds)

\* the result released whether or not the structure was compacted
ReleaseBuildMemory_always(accelStruct) == TRUE

\* "only delete compaction size and result if compaction was performed"
ReleaseBuildMemory(accelStruct) == accelStruct.isCompacted = TRUE

\* DxAccelStructManager::PostBuildRelease
PostBuildRelease(M, accelStructId) ==
    LET o  == M.m_asBufferBuildQueue[accelStructId + 1]
        accelStruct == M.objects[o]
    IN  Bind(IF ReleaseBuildMemory(accelStruct)
                /\ IsAllocated(M, accelStruct.resultGpuMemory)
             THEN PoolFree(M, "m_transientResultPool", accelStruct.resultGpuMemory)
             ELSE M, LAMBDA M1 :
        Bind(IF ReleaseBuildMemory(accelStruct)
                /\ IsAllocated(M1, accelStruct.compactionSizeGpuMemory)
             THEN PoolFree(M1, "m_compactionSizeGpuPool", accelStruct.compactionSizeGpuMemory)
             ELSE M1, LAMBDA M2 :
        Bind(IF ReleaseBuildMemory(accelStruct)
                /\ IsAllocated(M2, accelStruct.compactionSizeCpuMemory)
             THEN PoolFree(M2, "m_compactionSizeCpuPool", accelStruct.compactionSizeCpuMemory)
             ELSE M2, LAMBDA M3 :
        IF accelStruct.requestedCompaction = TRUE
           /\ IsAllocated(M3, accelStruct.scratchGpuMemory)
        THEN PoolFree(M3, "m_scratchPool", accelStruct.scratchGpuMemory)
        ELSE M3)))

\* DxAccelStructManager::GarbageCollection
RECURSIVE GarbageCollection(_, _)
GarbageCollection(M, accelStructIds) ==
    IF Len(accelStructIds) = 0 THEN M
    ELSE LET accelStructId == Head(accelStructIds)
             o  == M.m_asBufferBuildQueue[accelStructId + 1]
         IN  Bind(PostBuildRelease(M, accelStructId), LAMBDA M1 :
             Bind([M1 EXCEPT !.objects[o].readyToFree = TRUE], LAMBDA M2 :
             GarbageCollection(M2, Tail(accelStructIds))))

\* DxAccelStructManager::ReleaseAccelerationStructures
ReleaseAccelerationStructures(M, accelStructId) ==
    LET o  == M.m_asBufferBuildQueue[accelStructId + 1]
        accelStruct == M.objects[o]
    IN  Bind([M EXCEPT !.m_totalCompactedMemory = Wrap(@ - accelStruct.compactionSize),
                       !.m_totalUncompactedMemory = Wrap(@ - accelStruct.resultSize)],
             LAMBDA M0 :
        Bind(IF IsAllocated(M0, accelStruct.scratchGpuMemory)
             THEN [PoolFree(M0, "m_scratchPool", accelStruct.scratchGpuMemory)
                      EXCEPT !.objects[o].scratchGpuMemory.subBlock = NULL]
             ELSE M0, LAMBDA M1 :
        Bind(IF IsAllocated(M1, accelStruct.updateGpuMemory)
             THEN [PoolFree(M1, "m_updatePool", accelStruct.updateGpuMemory)
                      EXCEPT !.objects[o].updateGpuMemory.subBlock = NULL]
             ELSE M1, LAMBDA M2 :
        Bind(IF IsAllocated(M2, accelStruct.resultGpuMemory)
             THEN [PoolFree(M2, IF accelStruct.requestedCompaction
                                THEN "m_transientResultPool" ELSE "m_resultPool",
                            accelStruct.resultGpuMemory)
                      EXCEPT !.objects[o].resultGpuMemory.subBlock = NULL]
             ELSE M2, LAMBDA M3 :
        Bind(IF IsAllocated(M3, accelStruct.compactionGpuMemory)
             THEN [PoolFree(M3, "m_compactionPool", accelStruct.compactionGpuMemory)
                      EXCEPT !.objects[o].compactionGpuMemory.subBlock = NULL]
             ELSE M3, LAMBDA M4 :
        ReleaseAccelStructId(M4, accelStructId))))))

\* DxAccelStructManager::RemoveAccelerationStructures
RECURSIVE RemoveAccelerationStructures(_, _)
RemoveAccelerationStructures(M, accelStructIds) ==
    IF Len(accelStructIds) = 0 THEN M
    ELSE Bind(ReleaseAccelerationStructures(M, Head(accelStructIds)), LAMBDA M1 :
              RemoveAccelerationStructures(M1, Tail(accelStructIds)))

\* AccelStructManager::Reset: the loop that deletes every structure the
\* vector points to; the vector, the free list and m_asId are not touched
BaseReset(M) ==
    [M EXCEPT !.m_totalUncompactedMemory = 0,
              !.m_totalCompactedMemory = 0,
              !.objects = [o \in 1..Len(M.objects) |->
                              IF \E i \in 1..Len(M.m_asBufferBuildQueue) :
                                    M.m_asBufferBuildQueue[i] = o
                              THEN deleteAccelStruct(M.objects[o], FALSE)
                              ELSE M.objects[o]]]

\* DxAccelStructManager::Reset: the pools are destroyed and made anew, then
\* the base class's Reset runs.  The sub-allocations of the destroyed pools
\* are forgotten with them
Reset(M) ==
    Bind(Initialize(M, M.m_suballocationBlockSize), LAMBDA M0 :
    Bind(BaseReset(M0), LAMBDA M1 :
    [M1 EXCEPT !.objects = [o \in 1..Len(M1.objects) |->
                               [M1.objects[o] EXCEPT !.allocated = {}]]]))

\* DxAccelStructManager::IsValid
IsValid(M, accelStructId) ==
    /\ accelStructId > ReservedId /\ accelStructId < Len(M.m_asBufferBuildQueue)
    /\ M.m_asBufferBuildQueue[accelStructId + 1] # NULL


\* ---------------------------------------------------------------- threads
\* the threads of the client that call allocate and free of one Suballocator
Threads == {1, 2}

NoCall == [op |-> "none", arg |-> NULL]

\* thr: m_threadSafeLock is the thread that owns the mutex (NULL: none);
\* per thread, pc is "outside", "waiting" (in the constructor of the
\* lock_guard) or "inside" (between the lock and the unlock), call is the
\* call it is making, entry the Suballocator as it found it when it got in
NoThreads ==
    [m_threadSafeLock |-> NULL,
     pc |-> [t \in Threads |-> "outside"],
     call |-> [t \in Threads |-> NoCall],
     entry |-> [t \in Threads |-> NULL]]

\* a mutex that lets every thread in
MutexIsFree_always(owner) == TRUE

\* std::mutex::lock() returns once no thread owns the mutex
MutexIsFree(owner) == owner = NULL

\* the body of the call: allocate(arg) or free(arg) on Suballocator S
CallBody(S, call) ==
    IF call.op = "allocate" THEN allocate(S, call.arg) ELSE free(S, call.arg)

\* --------------------------------------------------------------- contexts
\* the AllocatorType* values clients construct Suballocators with
Allocators == {1, 2}

\* ctx: m_allocator is the static member D3D12Block::m_allocator (the same
\* for VkBlock); instances are the Suballocator objects constructed, each
\* with the allocator argument of its constructor; createdWith[i][b] is the
\* value of m_allocator that Block::allocate read when block b of instance
\* i was created
NoContexts == [m_allocator |-> NULL, instances |-> <<>>, createdWith |-> <<>>]

\* D3D12Block::setAllocator
setAllocator(C, allocator) == [C EXCEPT !.m_allocator = allocator]

\* Suballocator(blockSize, allocationAlignment, allocator) as one more
\* instance
ConstructInstance(C, cfg, allocator) ==
    [setAllocator(C, allocator)
        EXCEPT !.instances = Append(@, [allocator |-> allocator, pool |-> Suballocator(cfg)]),
               !.createdWith = Append(@, <<>>)]

\* instance i's allocate(size): every block createBlock makes during the
\* call is allocated through the static m_allocator
InstanceAllocate(C, i, size) ==
    LET P == allocate(C.instances[i].pool, size)
        made == Len(P.blockDescs) - Len(C.instances[i].pool.blockDescs)
    IN  [C EXCEPT !.instances[i].pool = P,
                  !.createdWith[i] = @ \o [k \in 1..made |-> C.m_allocator]]

\* instance i's free(h)
InstanceFree(C, i, h) == [C EXCEPT !.instances[i].pool = free(@, h)]

\* ------------------------------------------------------------------ state
VARIABLES
    pool,       \* the Suballocator object
    recent,     \* the shape of the latest calls: "allocate" (the last call was
                \* an allocate), "allocate_free" (an allocate and then free of
                \* the handle it returned), "allocate_free_allocate" (those
                \* two and then an allocate), "other"
    requested,  \* per handle, the unalignedSize its allocate was called with
    live,       \* handles returned by allocate that the client has not freed
    mgr,        \* the DxAccelStructManager object and what it owns
    thr,        \* the threads that call allocate and free, and m_threadSafeLock
    ctx         \* several Suballocator instances and Block's static m_allocator

vars == <<pool, recent, requested, live, mgr, thr, ctx>>

Init ==
    /\ \E cfg \in Configs : pool = Suballocator(cfg)
    /\ recent = "other"
    /\ requested = <<>>
    /\ live = {}
    /\ mgr = DxAccelStructManager
    /\ thr = NoThreads
    /\ ctx = NoContexts

Allocate ==
    /\ Len(pool.subBlocks) < MaxHandles
    /\ \E n \in Requests(pool.cfg) :
          /\ pool' = allocate(pool, n)
          /\ recent' = IF recent = "allocate_free"
                       THEN "allocate_free_allocate" ELSE "allocate"
          /\ requested' = Append(requested, n)
          /\ live' = live \cup {Len(pool.subBlocks) + 1}
          /\ UNCHANGED <<mgr, thr, ctx>>

\* the client frees a handle it holds, once
Free ==
    \E h \in live :
        /\ pool' = free(pool, h)
        /\ recent' = IF recent \in {"allocate", "allocate_free_allocate"}
                        /\ h = Len(pool.subBlocks)
                     THEN "allocate_free" ELSE "other"
        /\ live' = live \ {h}
        /\ UNCHANGED <<requested, mgr, thr, ctx>>

Next == Allocate \/ Free

Spec == Init /\ [][Next]_vars

\* ------------------------------------------------- the manager's clients
\* what the application passes in and what the device reports: the build
\* flags, the prebuild info of the geometry and the compaction size the GPU
\* wrote.  Two kinds of structure: one built with neither flag, one that
\* allows both compaction and update
BuildInputs ==
    { [allowCompaction |-> f, allowUpdate |-> f,
       ResultDataMaxSizeInBytes |-> 3 * AccelStructAlignment - 68,
       ScratchDataSizeInBytes |-> AccelStructAlignment - 56,
       UpdateScratchDataSizeInBytes |-> AccelStructAlignment - 156] :
      f \in BOOLEAN }
CompactionSizes == {AccelStructAlignment + 44}

\* a call with one element and a call with two
VectorsOf(S) == {<<a>> : a \in S} \cup {<<a, b>> : a \in S, b \in S}

\* the ids a client may pass: those of structures that exist.  Any other id
\* is a null or dangling pointer dereference in every operation below
TrackedIds(M) ==
    { id \in 1..(Len(M.m_asBufferBuildQueue) - 1) :
        /\ IsValid(M, id)
        /\ ~M.objects[M.m_asBufferBuildQueue[id + 1]].deleted }

\* the structure m_asBufferBuildQueue[id] points to
TrackedStruct(id) == mgr.objects[mgr.m_asBufferBuildQueue[id + 1]]

IdVectors(M) == {v \in VectorsOf(TrackedIds(M)) : Len(v) = 1 \/ v[1] # v[2]}

InitManager ==
    /\ mgr = Initialize(DxAccelStructManager, SuballocatorBlockSize)
    /\ pool = Suballocator(CHOOSE cfg \in Configs : cfg.m_blockSize = SuballocatorBlockSize)
    /\ recent = "other"
    /\ requested = <<>>
    /\ live = {}
    /\ thr = NoThreads
    /\ ctx = NoContexts

Build ==
    /\ \E asInputs \in VectorsOf(BuildInputs) :
          /\ Len(mgr.objects) + Len(asInputs) <= MaxBuilds
          /\ mgr' = PopulateBuildCommandList(mgr, asInputs)
    /\ UNCHANGED <<pool, recent, requested, live, thr, ctx>>

Compaction ==
    /\ \E accelStructIds \in IdVectors(mgr), compactionSize \in CompactionSizes :
          mgr' = PopulateCompactionCommandList(mgr, accelStructIds, compactionSize)
    /\ UNCHANGED <<pool, recent, requested, live, thr, ctx>>

Collect ==
    /\ \E accelStructIds \in IdVectors(mgr) :
          mgr' = GarbageCollection(mgr, accelStructIds)
    /\ UNCHANGED <<pool, recent, requested, live, thr, ctx>>

\* the caller drops the ids it has passed to RemoveAccelerationStructures
Remove ==
    /\ \E accelStructIds \in IdVectors(mgr) :
          mgr' = [RemoveAccelerationStructures(mgr, accelStructIds)
                     EXCEPT !.accelStructIds =
                                SelectSeq(@, LAMBDA id : \A i \in 1..Len(accelStructIds) :
                                                            accelStructIds[i] # id)]
    /\ UNCHANGED <<pool, recent, requested, live, thr, ctx>>

\* Reset, when no element of the vector is a pointer left dangling by an
\* earlier Reset (the loop would delete it a second time)
ResetManager ==
    /\ \A i \in 1..Len(mgr.m_asBufferBuildQueue) :
          mgr.m_asBufferBuildQueue[i] # NULL
              => ~mgr.objects[mgr.m_asBufferBuildQueue[i]].deleted
    /\ mgr' = Reset(mgr)
    /\ UNCHANGED <<pool, recent, requested, live, thr, ctx>>

NextManager == Build \/ Compaction \/ Collect \/ Remove \/ ResetManager

SpecManager == InitManager /\ [][NextManager]_vars

\* ------------------------------------------------- clients that update
\* what the application passes to PopulateUpdateCommandList: an update
\* (refit) of a structure, a rebuild of the same geometry, and a rebuild of
\* a geometry that needs more scratch memory than the first build had
UpdateInputs ==
    { [performUpdate |-> TRUE, allowUpdate |-> TRUE,
       ResultDataMaxSizeInBytes |-> 3 * AccelStructAlignment - 68,
       ScratchDataSizeInBytes |-> AccelStructAlignment - 56],
      [performUpdate |-> FALSE, allowUpdate |-> FALSE,
       ResultDataMaxSizeInBytes |-> 3 * AccelStructAlignment - 68,
       ScratchDataSizeInBytes |-> AccelStructAlignment - 56],
      [performUpdate |-> FALSE, allowUpdate |-> FALSE,
       ResultDataMaxSizeInBytes |-> 3 * AccelStructAlignment - 68,
       ScratchDataSizeInBytes |-> AccelStructAlignment + 44] }

\* an update is asked only of a structure that was built with ALLOW_UPDATE
\* (D3D12 rejects the build otherwise); the calls are bounded by the scratch
\* sub-allocations they leave behind.  The caller submits the command list
\* and passes an empty one to the next call
UpdateCalls ==
    { call \in [accelStructIds : IdVectors(mgr), asInputs : VectorsOf(UpdateInputs)] :
        /\ Len(call.asInputs) = Len(call.accelStructIds)
        /\ \A i \in 1..Len(call.asInputs) :
              call.asInputs[i].performUpdate
                  => TrackedStruct(call.accelStructIds[i]).updateGpuMemory.subBlock # NULL }

Update ==
    /\ \E call \in UpdateCalls :
          /\ mgr' = [PopulateUpdateCommandList(mgr, call.asInputs, call.accelStructIds)
                        EXCEPT !.commandList = <<>>]
          /\ Len(mgr'.m_scratchPool.subBlocks) <= MaxBuilds
    /\ UNCHANGED <<pool, recent, requested, live, thr, ctx>>

NextUpdate == NextManager \/ Update

SpecUpdate == InitManager /\ [][NextUpdate]_vars

\* ------------------------------------------------- concurrent clients
InitThreads ==
    /\ \E cfg \in Configs : pool = Suballocator(cfg)
    /\ recent = "other"
    /\ requested = <<>>
    /\ live = {}
    /\ mgr = DxAccelStructManager
    /\ thr = NoThreads
    /\ ctx = NoContexts

\* allocate calls made so far: the ones that returned and the ones under way
AllocateCalls ==
    Len(pool.subBlocks)
        + Cardinality({t \in Threads : thr.call[t].op = "allocate"})

\* thread t calls allocate(n), or free(h) of a handle it holds that no
\* other thread is freeing, and reaches the lock_guard
Call(t) ==
    /\ thr.pc[t] = "outside"
    /\ \E call \in [op : {"allocate"}, arg : Requests(pool.cfg)]
                   \cup [op : {"free"}, arg : live] :
          /\ call.op = "allocate" => AllocateCalls < MaxCalls
          /\ call.op = "free" => \A u \in Threads : thr.call[u] # call
          /\ thr' = [thr EXCEPT !.pc[t] = "waiting", !.call[t] = call]
    /\ UNCHANGED <<pool, recent, requested, live, mgr, ctx>>

\* the lock_guard of thread t gets the mutex
Lock(t) ==
    /\ thr.pc[t] = "waiting"
    /\ MutexIsFree(thr.m_threadSafeLock)
    /\ thr' = [thr EXCEPT !.m_threadSafeLock = t, !.pc[t] = "inside",
                          !.entry[t] = pool]
    /\ UNCHANGED <<pool, recent, requested, live, mgr, ctx>>

\* thread t finishes the body it started on the Suballocator it found, and
\* the lock_guard releases the mutex
Return(t) ==
    /\ thr.pc[t] = "inside"
    /\ pool' = CallBody(thr.entry[t], thr.call[t])
    /\ requested' = IF thr.call[t].op = "allocate"
                    THEN Append(requested, thr.call[t].arg) ELSE requested
    /\ live' = IF thr.call[t].op = "allocate"
               THEN live \cup {Len(pool'.subBlocks)}
               ELSE live \ {thr.call[t].arg}
    /\ thr' = [thr EXCEPT !.m_threadSafeLock = NULL, !.pc[t] = "outside",
                          !.call[t] = NoCall, !.entry[t] = NULL]
    /\ UNCHANGED <<recent, mgr, ctx>>

NextThreads == \E t \in Threads : Call(t) \/ Lock(t) \/ Return(t)

SpecThreads == InitThreads /\ [][NextThreads]_vars

\* ------------------------------------------- a reader that takes no lock
\* one thread calls getSize() (getStats() calls it for
\* totalResidentMemorySize) while other threads call allocate and free.
\* getSize takes no lock: its range-for takes begin() and end() of m_blocks
\* once and then reads one element per iteration, and calls of the other
\* threads, each atomic under m_threadSafeLock, run between its iterations.
\* thr is here the reader: pc ("outside", "loop", "returned"), index the
\* position of its iterator from 1, end the position of end() it took, size
\* its local sum; held is the set of the sums of block sizes of all the
\* states the Suballocator has had
NoReader == [pc |-> "outside", index |-> 0, end |-> 0, size |-> 0, held |-> {0}]

InitReader ==
    /\ \E cfg \in Configs : pool = Suballocator(cfg)
    /\ recent = "other"
    /\ requested = <<>>
    /\ live = {}
    /\ mgr = DxAccelStructManager
    /\ thr = NoReader
    /\ ctx = NoContexts

\* allocate and free of the other threads
MutatorAllocate ==
    /\ Len(pool.subBlocks) < MaxReaderHandles
    /\ \E n \in Requests(pool.cfg) : pool' = allocate(pool, n) /\ requested' = Append(requested, n)
    /\ live' = live \cup {Len(pool.subBlocks) + 1}
    /\ thr' = [thr EXCEPT !.held = @ \cup {getSize(pool')}]
    /\ UNCHANGED <<recent, mgr, ctx>>

MutatorFree ==
    /\ \E h \in live : pool' = free(pool, h) /\ live' = live \ {h}
    /\ thr' = [thr EXCEPT !.held = @ \cup {getSize(pool')}]
    /\ UNCHANGED <<recent, requested, mgr, ctx>>

\* uint64_t size = 0; begin() and end() of the range-for
GetSizeCall ==
    /\ thr.pc = "outside"
    /\ thr' = [thr EXCEPT !.pc = "loop", !.index = 1, !.end = Len(pool.m_blocks),
                          !.size = 0]
    /\ UNCHANGED <<pool, recent, requested, live, mgr, ctx>>

\* the BlockDesc pointers a read of element index of the vector can give:
\* the element, when the vector still has that many; behind the vector's
\* end the storage holds a pointer that was an element before, to a
\* BlockDesc, which is never deleted
ReadOutcomes(index) ==
    IF index <= Len(pool.m_blocks) THEN {pool.m_blocks[index]}
    ELSE 1..Len(pool.blockDescs)

\* size += blockDesc->size; ++iterator
GetSizeIteration ==
    /\ thr.pc = "loop"
    /\ thr.index <= thr.end
    /\ \E blockDesc \in ReadOutcomes(thr.index) :
          thr' = [thr EXCEPT !.size = @ + pool.blockDescs[blockDesc].size,
                             !.index = @ + 1]
    /\ UNCHANGED <<pool, recent, requested, live, mgr, ctx>>

\* iterator == end: return size
GetSizeReturn ==
    /\ thr.pc = "loop"
    /\ thr.index > thr.end
    /\ thr' = [thr EXCEPT !.pc = "returned"]
    /\ UNCHANGED <<pool, recent, requested, live, mgr, ctx>>

NextReader ==
    MutatorAllocate \/ MutatorFree \/ GetSizeCall \/ GetSizeIteration \/ GetSizeReturn

SpecReader == InitReader /\ [][NextReader]_vars

\* ------------------------------------------------- several Suballocators
InitContexts ==
    /\ pool = Suballocator(CHOOSE cfg \in Configs : cfg.m_blockSize = SuballocatorBlockSize)
    /\ recent = "other"
    /\ requested = <<>>
    /\ live = {}
    /\ mgr = DxAccelStructManager
    /\ thr = NoThreads
    /\ ctx = NoContexts

Construct ==
    /\ Len(ctx.instances) < MaxInstances
    /\ \E cfg \in Configs, allocator \in Allocators :
          ctx' = ConstructInstance(ctx, cfg, allocator)
    /\ UNCHANGED <<pool, recent, requested, live, mgr, thr>>

AllocateInInstance ==
    /\ \E i \in 1..Len(ctx.instances) :
          /\ Len(ctx.instances[i].pool.subBlocks) < MaxInstanceHandles
          /\ \E size \in Requests(ctx.instances[i].pool.cfg) :
                ctx' = InstanceAllocate(ctx, i, size)
    /\ UNCHANGED <<pool, recent, requested, live, mgr, thr>>

\* free of a handle that has not been freed
FreeInInstance ==
    /\ \E i \in 1..Len(ctx.instances) :
          \E h \in 1..Len(ctx.instances[i].pool.subBlocks) :
              /\ ~ctx.instances[i].pool.subBlocks[h].isFree
              /\ ctx' = InstanceFree(ctx, i, h)
    /\ UNCHANGED <<pool, recent, requested, live, mgr, thr>>

NextContexts == Construct \/ AllocateInInstance \/ FreeInInstance

SpecContexts == InitContexts /\ [][NextContexts]_vars

\* ------------------------------------------------- a handle freed twice
\* the client passes to free a handle it has freed before.  The SubBlock and
\* the BlockDesc it points to are never deleted, so the call reads valid
\* objects; the handles taken are those whose block is still in m_blocks
\* (getVMA() of a released block is not modelled).  The behaviour is followed
\* up to the return of that call
FreeAgain ==
    /\ recent # "free_again"
    /\ \E h \in (1..Len(pool.subBlocks)) \ live :
          /\ \E i \in 1..Len(pool.m_blocks) :
                pool.m_blocks[i] = pool.subBlocks[h].blockDesc
          /\ pool' = free(pool, h)
    /\ recent' = "free_again"
    /\ UNCHANGED <<requested, live, mgr, thr, ctx>>

\* allocate and free as in Spec, until the second free has returned
AllocateBefore == recent # "free_again" /\ Allocate
FreeBefore == recent # "free_again" /\ Free

NextRefree == AllocateBefore \/ FreeBefore \/ FreeAgain

SpecRefree == Init /\ [][NextRefree]_vars

\* ------------------------------------------------------------- properties
Handles == 1..Len(pool.subBlocks)
SB(h) == pool.subBlocks[h]
Range(s) == {s[i] : i \in 1..Len(s)}
BlockSize == pool.cfg.m_blockSize
A == pool.cfg.m_allocationAlignment

\* the size allocate reserves at least for handle h: its request rounded up
\* to the allocation alignment by plain arithmetic
AlignedRequest(h) == ((requested[h] + A - 1) \div A) * A

\* some freed handle held exactly the region that handle h holds now
Reuses(h) ==
    \E g \in Handles \ live :
        /\ g < h
        /\ SB(g).blockDesc = SB(h).blockDesc
        /\ SB(g).offset = SB(h).offset
        /\ SB(g).size = SB(h).size

C2_Aligned ==
    \A h \in Handles : SB(h).offset % A = 0 /\ SB(h).size % A = 0

\* an unaligned request was served at a non-zero offset, another one from the
\* free list, and a third by an oversized block
C2_Witness ==
    /\ \E h \in Handles : requested[h] % A # 0 /\ SB(h).offset > 0
    /\ \E h \in Handles : requested[h] % A # 0 /\ Reuses(h)
    /\ \E h \in Handles : SB(h).size > BlockSize

\* --------------------------------------------------------- steps, for the
\* properties of a single call
AllocateStep == Len(pool'.subBlocks) = Len(pool.subBlocks) + 1
FreeStep(h) == h \in live /\ live' = live \ {h}
NewHandle == Len(pool.subBlocks) + 1
Without(s, x) == SelectSeq(s, LAMBDA y : y # x)

\* the BlockDesc objects other than b are what they were
OtherBlocksUnchanged(b) ==
    \A c \in 1..Len(pool.blockDescs) : c # b => pool'.blockDescs[c] = pool.blockDescs[c]

\* C3: an allocate whose aligned size exceeds blockSize appends exactly one
\* block, of the aligned size, with the sub-allocation at its offset 0; free
\* of that handle removes that block in the same call, creates no free-list
\* entry and leaves every other block unchanged
C3_AllocatePart ==
    (AllocateStep /\ ((requested'[NewHandle] + A - 1) \div A) * A > BlockSize)
        => LET b == Len(pool.blockDescs) + 1
               aligned == ((requested'[NewHandle] + A - 1) \div A) * A
           IN  /\ Len(pool'.blockDescs) = b
               /\ pool'.m_blocks = Append(pool.m_blocks, b)
               /\ pool'.blockDescs[b].size = aligned
               /\ pool'.subBlocks[NewHandle].blockDesc = b
               /\ pool'.subBlocks[NewHandle].offset = 0
               /\ pool'.subBlocks[NewHandle].size = aligned
               /\ OtherBlocksUnchanged(b)

C3_FreePart ==
    \A h \in live :
        (FreeStep(h) /\ AlignedRequest(h) > BlockSize)
            => LET b == SB(h).blockDesc
               IN  /\ b \in Range(pool.m_blocks)
                   /\ pool'.m_blocks = Without(pool.m_blocks, b)
                   /\ pool'.blockDescs[b].freeSubBlocks = <<>>
                   /\ OtherBlocksUnchanged(b)

C3_OversizedIsolation == [][C3_AllocatePart /\ C3_FreePart]_vars

\* an oversized sub-allocation has been allocated next to other blocks and
\* freed again, and other blocks are still there
C3_Witness ==
    \E h \in Handles \ live :
        /\ AlignedRequest(h) > BlockSize
        /\ SB(h).blockDesc > 1
        /\ Len(pool.m_blocks) >= 1

\* C4: while only one block has ever been created and every request fitted
\* in blockSize, the block count never falls below 1 once the block exists
C4_SoleBlockRetained ==
    (/\ Len(pool.blockDescs) = 1
     /\ \A h \in Handles : AlignedRequest(h) <= BlockSize)
        => Len(pool.m_blocks) >= 1

C6_AtMostOneBlockWhenIdle ==
    live = {} => Len(pool.m_blocks) <= 1

\* several blocks were created, every handle has been freed, and one block
\* is kept
C6_Witness ==
    /\ live = {}
    /\ Len(pool.blockDescs) >= 3
    /\ Len(pool.m_blocks) = 1
    /\ \E h \in Handles : SB(h).size < BlockSize

\* C8: the sub-allocation an allocate call returns has an owning block, and
\* that block is in m_blocks at return
C8_AllocateAssignsBlock ==
    /\ \A h \in Handles : SB(h).blockDesc # NULL
    /\ recent \in {"allocate", "allocate_free_allocate"}
          => SB(Len(pool.subBlocks)).blockDesc \in Range(pool.m_blocks)

\* the last allocate found no room in the blocks it scanned and was served
\* by the block it created at the end of the scan
C8_Witness ==
    /\ recent = "allocate"
    /\ Len(pool.m_blocks) >= 2
    /\ LET h == Len(pool.subBlocks)
           b == SB(h).blockDesc
       IN  /\ b = pool.m_blocks[Len(pool.m_blocks)]
           /\ SB(h).size <= BlockSize
           /\ SB(h).offset = 0
           /\ pool.blockDescs[b].currentOffset = SB(h).size

RECURSIVE SumTo(_, _)
SumTo(f, n) == IF n = 0 THEN 0 ELSE f[n] + SumTo(f, n - 1)

\* the sum of the reserved sizes of the live sub-allocations
LiveBytes ==
    SumTo([h \in Handles |-> IF h \in live THEN SB(h).size ELSE 0], Len(pool.subBlocks))

\* C9: getSize() is the sum of the sizes of the blocks in m_blocks, and
\* totalResidentMemorySize - unusedSize of getStats() is the sum of the
\* reserved sizes of the live sub-allocations
C9_StatsConservation ==
    /\ getSize(pool) =
          SumTo([b \in 1..Len(pool.blockDescs) |->
                    IF b \in Range(pool.m_blocks) THEN pool.blockDescs[b].size ELSE 0],
                Len(pool.blockDescs))
    /\ getStats(pool).totalResidentMemorySize - getStats(pool).unusedSize = LiveBytes

\* two blocks, a free-list entry, and a live sub-allocation that reuses a
\* freed region larger than its request
C9_Witness ==
    /\ Len(pool.m_blocks) >= 2
    /\ \E b \in Range(pool.m_blocks) : Len(pool.blockDescs[b].freeSubBlocks) > 0
    /\ \E h \in live : Reuses(h) /\ SB(h).size > AlignedRequest(h)

\* size rounded up to the block's getAlignment(), minus size
Padding(size) ==
    LET BA == getAlignment(pool)
    IN  ((size + BA - 1) \div BA) * BA - size

\* C10: alignmentSavings is the sum, over the live sub-allocations, of their
\* size rounded up to the block alignment minus their size; it has not
\* wrapped below zero
C10_AlignmentSavingsIsLivePadding ==
    pool.alignmentSavings =
        SumTo([h \in Handles |-> IF h \in live THEN Padding(SB(h).size) ELSE 0],
              Len(pool.subBlocks))

\* ------------------------------------------- free-list reuse with slack
\* a pool of acceleration-structure memory with the default block size; the
\* requests are the sizes of the scenario (2048, 1800), a size that rounds up
\* to 1792 and a small one
InitReuse ==
    /\ pool = Suballocator([m_blockSize |-> DefaultSuballocatorBlockSize,
                            m_allocationAlignment |-> AccelStructAlignment,
                            alignment |-> BlockAlignment])
    /\ recent = "other"
    /\ requested = <<>>
    /\ live = {}
    /\ mgr = DxAccelStructManager
    /\ thr = NoThreads
    /\ ctx = NoContexts

SpecReuse == InitReuse /\ [][Next]_vars

\* the pool has one block, whose free list holds one region, of 2048 bytes
OneRegionOf2048 ==
    /\ Len(pool.m_blocks) = 1
    /\ Len(pool.blockDescs[pool.m_blocks[1]].freeSubBlocks) = 1
    /\ pool.blockDescs[pool.m_blocks[1]].freeSubBlocks[1].size = 2048

\* the allocate of this step was served from that region: the handle has
\* the region's block, offset and size, and the region has left the list
ServedFromRegion ==
    LET b == pool.m_blocks[1]
    IN  /\ pool'.subBlocks[NewHandle].blockDesc = b
        /\ pool'.subBlocks[NewHandle].offset = pool.blockDescs[b].freeSubBlocks[1].offset
        /\ pool'.subBlocks[NewHandle].size = 2048
        /\ pool'.blockDescs[b].freeSubBlocks = <<>>
        /\ pool'.m_blocks = pool.m_blocks

\* C16 as claimed: with one free region of 2048 bytes, allocate(1800) is
\* served from it and returns getSize() = 2048 and getUnusedSize() = 256
C16_Reuse1800AsClaimed ==
    [][(AllocateStep /\ OneRegionOf2048 /\ requested'[NewHandle] = 1800)
          => /\ ServedFromRegion
             /\ pool'.subBlocks[NewHandle].unusedSize = 256]_vars

\* C16 as amended: allocate(1800) rounds up to 2048 and is served from the
\* region as an exact fit with getSize() = 2048; a request that rounds up to
\* 1792 is served from the region with getSize() = 2048 and
\* getUnusedSize() = 256
C16_ReuseOf2048Region ==
    [][(AllocateStep /\ OneRegionOf2048)
          => /\ requested'[NewHandle] = 1800 => ServedFromRegion
             /\ requested'[NewHandle] = 1700
                   => /\ ServedFromRegion
                      /\ pool'.subBlocks[NewHandle].unusedSize = 256]_vars

\* a request that rounds up to 1792 holds a freed region of 2048 bytes with
\* an unused size of 256, away from the start of the block
C16_Witness ==
    \E h \in live :
        /\ requested[h] = 1700
        /\ Reuses(h)
        /\ SB(h).size = 2048
        /\ SB(h).unusedSize = 256
        /\ SB(h).offset > 0

\* allocate(X), free of its handle, allocate(Y): the step that is the second
\* allocate, X the handle freed just before it, Y the handle it returns
ReuseStep == recent = "allocate_free" /\ AllocateStep
HandleX == Len(pool.subBlocks)
HandleY == Len(pool.subBlocks) + 1
AlignedY == ((requested'[HandleY] + A - 1) \div A) * A

\* aligned Y is at most X's reserved size and the slack is below 2 * aligned Y
FitsFreedRegion ==
    /\ AlignedY <= SB(HandleX).size
    /\ SB(HandleX).size - AlignedY < 2 * AlignedY

\* Y is in X's block at X's offset
PlacedAtFreedRegion ==
    /\ pool'.subBlocks[HandleY].blockDesc = SB(HandleX).blockDesc
    /\ pool'.subBlocks[HandleY].offset = SB(HandleX).offset

\* block c can serve a request of the aligned size s: a free region of at
\* least s and below 3 * s, or room after currentOffset
CanServe(c, s) ==
    \/ \E i \in 1..Len(pool.blockDescs[c].freeSubBlocks) :
          /\ s <= pool.blockDescs[c].freeSubBlocks[i].size
          /\ pool.blockDescs[c].freeSubBlocks[i].size < 3 * s
    \/ pool.blockDescs[c].currentOffset + s <= pool.blockDescs[c].size

\* no block before X's block in m_blocks can serve Y
NoEarlierBlockServes ==
    \A i, j \in 1..Len(pool.m_blocks) :
        (i < j /\ pool.m_blocks[j] = SB(HandleX).blockDesc)
            => ~CanServe(pool.m_blocks[i], AlignedY)

\* X's block has no other free region of a size from aligned Y to X's size
NoOtherRegionFits ==
    LET fl == pool.blockDescs[SB(HandleX).blockDesc].freeSubBlocks
    IN  \A i \in 1..Len(fl) :
            fl[i].offset # SB(HandleX).offset
                => ~(AlignedY <= fl[i].size /\ fl[i].size <= SB(HandleX).size)

\* C7 as claimed: after allocate(X) and free of its handle, an allocate(Y)
\* that fits the freed region is placed in X's block at the freed region and
\* does not increase the number of blocks
C7_ReuseAsClaimed ==
    [][(ReuseStep /\ FitsFreedRegion)
          => /\ PlacedAtFreedRegion
             /\ Len(pool'.m_blocks) <= Len(pool.m_blocks)]_vars

\* C7 as amended: when X's block is still in m_blocks after the free, the
\* allocate(Y) does not increase the number of blocks; when moreover no
\* earlier block can serve Y and X's block has no other free region of a size
\* from aligned Y to X's size, Y is placed in X's block at the freed region
C7_ReuseWhenBlockSurvives ==
    [][(ReuseStep /\ FitsFreedRegion /\ SB(HandleX).blockDesc \in Range(pool.m_blocks))
          => /\ Len(pool'.m_blocks) = Len(pool.m_blocks)
             /\ (NoEarlierBlockServes /\ NoOtherRegionFits) => PlacedAtFreedRegion]_vars

\* allocate(X), free, allocate(Y) have run; Y, smaller than X, took X's
\* region in a block that is not the first one
C7_Witness ==
    /\ recent = "allocate_free_allocate"
    /\ LET X == Len(pool.subBlocks) - 1
           Y == Len(pool.subBlocks)
       IN  /\ SB(Y).blockDesc = SB(X).blockDesc
           /\ SB(Y).offset = SB(X).offset
           /\ AlignedRequest(Y) < SB(X).size
           /\ Len(pool.m_blocks) >= 2
           /\ SB(Y).blockDesc # pool.m_blocks[1]

\* C11: for every sub-allocation allocate has returned, getSize() minus
\* getUnusedSize() is the size the caller requested
C11_SizeMinusUnusedIsRequest ==
    \A h \in Handles : SB(h).size - SB(h).unusedSize = requested[h]

\* C12: isFree() of a handle is false while the client holds it and true
\* once it has been freed, whatever is allocated afterwards
C12_IsFreeTracksFree ==
    \A h \in Handles : SB(h).isFree = (h \notin live)

\* three freed handles: one left a free-list entry in a block that is still
\* there with a live handle reusing the region, one emptied a block that was
\* released, one was a whole-block release
C12_Witness ==
    /\ \E g \in Handles \ live : \E h \in live : h > g /\ Reuses(h)
                                                 /\ SB(h).blockDesc = SB(g).blockDesc
                                                 /\ SB(h).offset = SB(g).offset
    /\ \E g \in Handles \ live :
          /\ SB(g).blockDesc \notin Range(pool.m_blocks)
          /\ SB(g).size < pool.blockDescs[SB(g).blockDesc].size
    /\ \E g \in Handles \ live :
          /\ SB(g).blockDesc \notin Range(pool.m_blocks)
          /\ SB(g).size = pool.blockDescs[SB(g).blockDesc].size

\* the number of free regions of block b: its free-list entries and its
\* tail when the tail is not empty
FreeRegions(b) ==
    Len(pool.blockDescs[b].freeSubBlocks)
        + (IF pool.blockDescs[b].currentOffset < pool.blockDescs[b].size THEN 1 ELSE 0)

TotalFreeRegions ==
    SumTo([b \in 1..Len(pool.blockDescs) |->
              IF b \in Range(pool.m_blocks) THEN FreeRegions(b) ELSE 0],
          Len(pool.blockDescs))

OneFreeRegionPerBlock == \A b \in Range(pool.m_blocks) : FreeRegions(b) <= 1

\* C14 as claimed: getFragmentation returns 0 whenever each block has at
\* most one free region, however many blocks there are
C14_ZeroWhenOneRegionPerBlock ==
    OneFreeRegionPerBlock => getFragmentation(pool).num = 0

\* C14 as amended: when each block has at most one free region,
\* getFragmentation returns 0 exactly when all blocks together have at most
\* one free region, and a positive value otherwise
C14_ZeroWhenOneRegionInAll ==
    OneFreeRegionPerBlock
        => /\ (TotalFreeRegions <= 1) => getFragmentation(pool).num = 0
           /\ (TotalFreeRegions >= 2) => getFragmentation(pool).num > 0

\* two blocks, a full one and one whose single free region is a free-list
\* entry with nothing after it, and getFragmentation returns 0
C14_Witness ==
    /\ Len(pool.m_blocks) = 2
    /\ TotalFreeRegions = 1
    /\ \E b \in Range(pool.m_blocks) :
          /\ Len(pool.blockDescs[b].freeSubBlocks) = 1
          /\ pool.blockDescs[b].currentOffset = pool.blockDescs[b].size
    /\ getFragmentation(pool).num = 0

\* ------------------------------------------------ properties of the manager

\* position of BlockDesc b in the pool's m_blocks, from 0; -1 when not there
BlockIndexOf(P, b) ==
    IF \E i \in 1..Len(P.m_blocks) : P.m_blocks[i] = b
    THEN (CHOOSE i \in 1..Len(P.m_blocks) : P.m_blocks[i] = b) - 1
    ELSE -1


\* C15: the compaction-size GPU pool and CPU pool have the same number of
\* blocks, and the GPU and CPU compaction-size sub-allocations of every
\* tracked structure are at the same block index and the same offset
C15_SizePoolsInLockStep ==
    LET G == mgr.m_compactionSizeGpuPool
        C == mgr.m_compactionSizeCpuPool
    IN  /\ Len(G.m_blocks) = Len(C.m_blocks)
        /\ \A id \in TrackedIds(mgr) :
              LET g == TrackedStruct(id).compactionSizeGpuMemory.subBlock
                  c == TrackedStruct(id).compactionSizeCpuMemory.subBlock
              IN  (g # NULL \/ c # NULL)
                     => /\ g # NULL /\ c # NULL
                        /\ G.subBlocks[g].offset = C.subBlocks[c].offset
                        /\ G.subBlocks[g].isFree = C.subBlocks[c].isFree
                        /\ BlockIndexOf(G, G.subBlocks[g].blockDesc)
                              = BlockIndexOf(C, C.subBlocks[c].blockDesc)

\* the first block of the compaction-size pools has been released and a
\* tracked structure's compaction-size memory, in the second block created,
\* is now at block index 0
C15_Witness ==
    \E id \in TrackedIds(mgr) :
        LET memory == TrackedStruct(id).compactionSizeGpuMemory
        IN  /\ LiveIn(mgr, memory)
            /\ mgr.m_compactionSizeGpuPool.subBlocks[memory.subBlock].blockDesc = 2
            /\ mgr.m_compactionSizeGpuPool.m_blocks = <<2>>

\* C18: every sub-allocation made on behalf of a structure that
\* RemoveAccelerationStructures has removed has been freed
C18_RemoveFreesEverything ==
    \A o \in 1..Len(mgr.objects) :
        mgr.objects[o].removed
            => \A memory \in mgr.objects[o].allocated : SubBlockIsFree(mgr, memory)

\* C19: for every tracked structure that GarbageCollection has been called
\* on, the sub-allocation behind GetAccelStructGPUVA is live
C19_GpuvaBackingLiveAfterCollect ==
    \A id \in TrackedIds(mgr) :
        TrackedStruct(id).readyToFree => LiveIn(mgr, GetAccelStructGPUVA(mgr, id))

\* a compacted structure has been collected: its result and scratch memory
\* are freed, its compaction buffer is what the address points to; next to
\* it a collected structure that was never compacted
C19_Witness ==
    /\ \E id \in TrackedIds(mgr) :
          /\ TrackedStruct(id).readyToFree
          /\ TrackedStruct(id).isCompacted
          /\ SubBlockIsFree(mgr, TrackedStruct(id).resultGpuMemory)
          /\ SubBlockIsFree(mgr, TrackedStruct(id).scratchGpuMemory)
    /\ \E id \in TrackedIds(mgr) :
          /\ TrackedStruct(id).readyToFree
          /\ ~TrackedStruct(id).isCompacted

\* C20: after Reset, IsValid(id) is false for every id
C20_ResetInvalidatesIds ==
    [][mgr' = Reset(mgr)
          => \A id \in 0..Len(mgr'.m_asBufferBuildQueue) : ~IsValid(mgr', id)]_vars

\* ------------------------------------------------ properties of the threads
\* C13: at most one thread is inside allocate or free; every call leaves the
\* Suballocator as its body leaves the Suballocator that the call before it
\* left, so the calls take effect one after the other in the order in which
\* they return; live sub-allocations of the same block do not overlap
C13_OneThreadInside ==
    Cardinality({t \in Threads : thr.pc[t] = "inside"}) <= 1

C13_CallsTakeEffectInOrder ==
    \A t \in Threads :
        (thr.pc[t] = "inside" /\ thr'.pc[t] = "outside")
            => pool' = CallBody(pool, thr.call[t])

C17_BlocksUseOwnAllocator ==
    \A i \in 1..Len(ctx.instances) :
        \A b \in 1..Len(ctx.createdWith[i]) :
            ctx.createdWith[i][b] = ctx.instances[i].allocator

\* ------------------------------------------------ the ids of the manager
\* no structure has been deleted by Reset: every deleted structure was
\* removed by RemoveAccelerationStructures
OnlyBuildsAndRemovals ==
    \A o \in 1..Len(mgr.objects) : mgr.objects[o].deleted => mgr.objects[o].removed

\* the ids the caller holds: pushed to its vector by a build and not passed
\* to RemoveAccelerationStructures since
HeldIds == Range(mgr.accelStructIds)

\* C21: over builds and removals, IsValid(id) is true exactly for the ids
\* that a build has issued and that have not been removed since, and false
\* for every other id, 0 and the ids beyond the largest issued included
C21_IsValidIffIssuedAndNotRemoved ==
    OnlyBuildsAndRemovals
        => \A id \in 0..(MaxBuilds + 2) : IsValid(mgr, id) <=> id \in HeldIds

\* two ids were issued and the first one has been removed: the second is
\* valid, the first is not, and its element of the vector is still there
C21_Witness ==
    /\ OnlyBuildsAndRemovals
    /\ Len(mgr.m_asBufferBuildQueue) = 3
    /\ HeldIds = {2}
    /\ IsValid(mgr, 2) /\ ~IsValid(mgr, 1)

\* C22: over builds and removals, no id the caller holds is the reserved id
\* 0, the ids it holds are pairwise distinct and name pairwise distinct
\* structures that exist; so an id is issued again only after its removal
C22_IdsDistinctAndNotReserved ==
    OnlyBuildsAndRemovals
        => /\ \A i \in 1..Len(mgr.accelStructIds) : mgr.accelStructIds[i] # ReservedId
           /\ \A i, j \in 1..Len(mgr.accelStructIds) :
                 i # j => /\ mgr.accelStructIds[i] # mgr.accelStructIds[j]
                          /\ mgr.m_asBufferBuildQueue[mgr.accelStructIds[i] + 1]
                                # mgr.m_asBufferBuildQueue[mgr.accelStructIds[j] + 1]
           /\ \A i \in 1..Len(mgr.accelStructIds) :
                 ~TrackedStruct(mgr.accelStructIds[i]).deleted

\* id 1 was issued, removed and issued again to a second structure
C22_Witness ==
    /\ OnlyBuildsAndRemovals
    /\ 1 \in HeldIds
    /\ mgr.m_asBufferBuildQueue[1 + 1] = 2
    /\ mgr.objects[1].removed

\* ------------------------------------------------- the blocks of the pool
\* C23: when m_blocks holds more than one block, no block of it has
\* numSubBlocks = 0
C23_NoEmptyBlockAmongSeveral ==
    Len(pool.m_blocks) > 1
        => \A b \in Range(pool.m_blocks) : pool.blockDescs[b].numSubBlocks # 0

\* ---------------------------------------------- the choice of a free region
\* the allocate of this step: the block of the handle it returns, that
\* block's free list before the call, and the aligned request
BlockOfNew == pool'.subBlocks[NewHandle].blockDesc
FreeListBefore == pool.blockDescs[BlockOfNew].freeSubBlocks
AlignedNew == ((requested'[NewHandle] + A - 1) \div A) * A

\* the allocate of this step took an entry out of the free list of the block
\* that serves it
FreeListReuse ==
    /\ AllocateStep
    /\ BlockOfNew <= Len(pool.blockDescs)
    /\ Len(pool'.blockDescs[BlockOfNew].freeSubBlocks) < Len(FreeListBefore)

\* the entries of fl of at least s bytes, and among them the earliest one of
\* the smallest size
Fitting(fl, s) == {i \in 1..Len(fl) : fl[i].size >= s}
BestFit(fl, s) ==
    CHOOSE i \in Fitting(fl, s) :
        \A j \in Fitting(fl, s) :
            fl[i].size < fl[j].size \/ (fl[i].size = fl[j].size /\ i <= j)

\* C24: when allocate reuses a free region of a block, the region is the
\* earliest one of minimum size among the block's free regions of at least
\* the aligned request, and exactly that entry leaves the free list
C24_ReuseTakesEarliestBestFit ==
    [][FreeListReuse
          => /\ Fitting(FreeListBefore, AlignedNew) # {}
             /\ LET best == BestFit(FreeListBefore, AlignedNew)
                IN  /\ pool'.subBlocks[NewHandle].offset = FreeListBefore[best].offset
                    /\ pool'.subBlocks[NewHandle].size = FreeListBefore[best].size
                    /\ pool'.blockDescs[BlockOfNew].freeSubBlocks
                          = RemoveAt(FreeListBefore, best)]_vars

\* a live handle holds a freed region larger than its request while another
\* region of the same size is in the free list of its block
C24_Witness ==
    \E h \in live :
        /\ Reuses(h)
        /\ SB(h).size > AlignedRequest(h)
        /\ \E i \in 1..Len(pool.blockDescs[SB(h).blockDesc].freeSubBlocks) :
              pool.blockDescs[SB(h).blockDesc].freeSubBlocks[i].size = SB(h).size

\* block number k of m_blocks is reached by the scan of allocate for the
\* aligned size s: no block before it can serve s
Scanned(k, s) == \A j \in 1..(k - 1) : ~CanServe(pool.m_blocks[j], s)

\* the new handle holds entry i of the free list fl of block c
HoldsRegion(c, fl, i) ==
    /\ pool'.subBlocks[NewHandle].blockDesc = c
    /\ pool'.subBlocks[NewHandle].offset = fl[i].offset
    /\ pool'.subBlocks[NewHandle].size = fl[i].size

C26_NoReuseOfTwiceTheRequest ==
    [][FreeListReuse
          => pool'.subBlocks[NewHandle].size < 2 * AlignedNew]_vars

\* the free list fl has a region that the search accepts for the aligned
\* size s: of at least s bytes and with a slack below 2 * s
Acceptable(fl, s) ==
    \E i \in 1..Len(fl) : s <= fl[i].size /\ fl[i].size - s < 2 * s

\* C27: a free region smaller than the aligned request is never chosen for
\* it; when a block that allocate searches has no acceptable region, the
\* call leaves the block's free list unchanged and serves the request at
\* the block's currentOffset if it fits there
C27_NoFitLeavesFreeListAndBumps ==
    [][AllocateStep
          => /\ FreeListReuse => pool'.subBlocks[NewHandle].size >= AlignedNew
             /\ \A k \in 1..Len(pool.m_blocks) :
                   LET c  == pool.m_blocks[k]
                       fl == pool.blockDescs[c].freeSubBlocks
                       s  == AlignedNew
                   IN  (Scanned(k, s) /\ ~Acceptable(fl, s))
                          => /\ pool'.blockDescs[c].freeSubBlocks = fl
                             /\ pool.blockDescs[c].currentOffset + s <= pool.blockDescs[c].size
                                   => /\ pool'.subBlocks[NewHandle].blockDesc = c
                                      /\ pool'.subBlocks[NewHandle].offset
                                            = pool.blockDescs[c].currentOffset
                                      /\ pool'.subBlocks[NewHandle].size = s
                                      /\ pool'.blockDescs[c].currentOffset
                                            = pool.blockDescs[c].currentOffset + s]_vars

\* a live handle was served at the bump pointer of a block whose free list
\* holds a region smaller than the handle, freed before the handle's offset
C27_Witness ==
    \E h \in live :
        LET fl == pool.blockDescs[SB(h).blockDesc].freeSubBlocks
        IN  /\ ~Reuses(h)
            /\ SB(h).size = AlignedRequest(h)
            /\ \E i \in 1..Len(fl) : fl[i].size < SB(h).size /\ fl[i].offset < SB(h).offset

\* C28: an allocate call creates at most one block; on the normal path it
\* creates one only when no block of m_blocks can serve the request from its
\* free list or at its currentOffset, and the new block has the size
\* blockSize, is appended to m_blocks and holds the sub-allocation at offset 0
C28_OneNewBlockOnlyWhenNeeded ==
    [][AllocateStep
          => /\ Len(pool'.blockDescs) <= Len(pool.blockDescs) + 1
             /\ Len(pool'.m_blocks) <= Len(pool.m_blocks) + 1
             /\ (AlignedNew <= BlockSize /\ Len(pool'.blockDescs) > Len(pool.blockDescs))
                   => LET b == Len(pool.blockDescs) + 1
                      IN  /\ \A c \in Range(pool.m_blocks) : ~CanServe(c, AlignedNew)
                          /\ pool'.blockDescs[b].size = BlockSize
                          /\ pool'.m_blocks = Append(pool.m_blocks, b)
                          /\ pool'.subBlocks[NewHandle].blockDesc = b
                          /\ pool'.subBlocks[NewHandle].offset = 0]_vars

\* the last allocate was served at offset 0 of a block it created behind a
\* block that has a free region, too small for it, and no room at its end
C28_Witness ==
    /\ recent = "allocate"
    /\ Len(pool.m_blocks) >= 2
    /\ LET h == Len(pool.subBlocks)
           b == SB(h).blockDesc
           first == pool.blockDescs[pool.m_blocks[1]]
       IN  /\ b = pool.m_blocks[Len(pool.m_blocks)]
           /\ b = Len(pool.blockDescs)
           /\ SB(h).size < BlockSize
           /\ SB(h).offset = 0
           /\ pool.blockDescs[b].currentOffset = SB(h).size
           /\ Len(first.freeSubBlocks) > 0
           /\ first.currentOffset = first.size

\* the handles that allocate has ever placed in BlockDesc b
HandlesOf(b) == {h \in Handles : SB(h).blockDesc = b}

\* C29: a block larger than blockSize holds, from its creation to its
\* release, exactly one sub-allocation, at offset 0 and of the block's size;
\* no other allocate is ever placed in it and its free list stays empty
C29_OversizedBlockHoldsOne ==
    \A b \in 1..Len(pool.blockDescs) :
        pool.blockDescs[b].size > BlockSize
            => /\ Cardinality(HandlesOf(b)) = 1
               /\ \A h \in HandlesOf(b) :
                     /\ SB(h).offset = 0
                     /\ SB(h).size = pool.blockDescs[b].size
                     /\ h \in live <=> b \in Range(pool.m_blocks)
               /\ pool.blockDescs[b].freeSubBlocks = <<>>
               /\ pool.blockDescs[b].numSubBlocks = 1

\* an oversized block is the first block of m_blocks, and two allocations
\* made after it, one of them freed again, are in a block behind it
C29_Witness ==
    /\ Len(pool.m_blocks) >= 2
    /\ pool.blockDescs[pool.m_blocks[1]].size > BlockSize
    /\ \E h \in HandlesOf(pool.m_blocks[1]) :
          /\ \E g \in live : g > h /\ SB(g).blockDesc = pool.m_blocks[2]
          /\ \E g \in Handles \ live : g > h /\ SB(g).blockDesc = pool.m_blocks[2]

C31_SecondFreeRejected ==
    [][recent' = "free_again" => pool' = pool]_vars

\* ------------------------------------------------ the layout of a block
\* the regions [offset, offset + size) of block b: those of the live
\* sub-allocations, tagged with their handle, and those of the free-list
\* entries, tagged with their position
RegionsOf(b) ==
    {[kind |-> "live", id |-> h, offset |-> SB(h).offset, size |-> SB(h).size] :
        h \in HandlesOf(b) \cap live}
    \cup {[kind |-> "free", id |-> i,
           offset |-> pool.blockDescs[b].freeSubBlocks[i].offset,
           size |-> pool.blockDescs[b].freeSubBlocks[i].size] :
        i \in 1..Len(pool.blockDescs[b].freeSubBlocks)}

\* the regions of rs are pairwise disjoint and every byte of [0, limit) is
\* in one of them, none reaching beyond limit: each region starts at 0 or
\* where another one ends, and their sizes add up to limit
RECURSIVE SumOfSizes(_)
SumOfSizes(rs) ==
    IF rs = {} THEN 0
    ELSE LET r == CHOOSE x \in rs : TRUE IN r.size + SumOfSizes(rs \ {r})

Tiles(rs, limit) ==
    /\ \A r1, r2 \in rs :
          r1 # r2 => \/ r1.offset + r1.size <= r2.offset
                     \/ r2.offset + r2.size <= r1.offset
    /\ \A r \in rs : r.offset + r.size <= limit
    /\ SumOfSizes(rs) = limit

C33_RegionsTileBlock ==
    \A b \in Range(pool.m_blocks) :
        /\ Tiles(RegionsOf(b), pool.blockDescs[b].currentOffset)
        /\ pool.blockDescs[b].currentOffset <= pool.blockDescs[b].size

C33_CurrentOffsetGrows ==
    \A b \in 1..Len(pool.blockDescs) :
        pool'.blockDescs[b].currentOffset >= pool.blockDescs[b].currentOffset

C32_GetSizeIsSomeStatesTotal ==
    thr.pc = "returned" => thr.size \in thr.held


\* C35: every free call the manager issues passes a sub-allocation that the
\* allocate of that same pool returned, over every order of builds,
\* updates and rebuilds, compactions, collections and removals
C35_FreeOfOwnPool ==
    \A call \in mgr.foreignFrees : call.memory.pool = call.pool


\* the sub-allocations made from the compaction pool for structure o
CompactionAllocations(o) ==
    {memory \in mgr.objects[o].allocated : memory.pool = "m_compactionPool"}

\* a call of PopulateCompactionCommandList with ids of structures that are
\* compacted or were built without the flag changes nothing
CompactionAgainChangesNothing ==
    \A accelStructIds \in IdVectors(mgr), compactionSize \in CompactionSizes :
        (\A i \in 1..Len(accelStructIds) :
            \/ TrackedStruct(accelStructIds[i]).isCompacted
            \/ ~TrackedStruct(accelStructIds[i]).requestedCompaction)
            => PopulateCompactionCommandList(mgr, accelStructIds, compactionSize) = mgr

C36_CompactedOnlyIfRequested ==
    /\ \A id \in TrackedIds(mgr) :
          /\ TrackedStruct(id).isCompacted => TrackedStruct(id).requestedCompaction
          /\ ~TrackedStruct(id).requestedCompaction
                => TrackedStruct(id).compactionGpuMemory = NoMemory
    /\ \A o \in 1..Len(mgr.objects) :
          /\ Cardinality(CompactionAllocations(o)) <= 1
          /\ ~mgr.objects[o].deleted
                => (mgr.objects[o].isCompacted <=> CompactionAllocations(o) # {})
    /\ CompactionAgainChangesNothing

\* requestedCompaction of a structure stays what the build made it
C36_RequestKept ==
    \A o \in 1..Len(mgr.objects) :
        ~mgr'.objects[o].deleted
            => mgr'.objects[o].requestedCompaction = mgr.objects[o].requestedCompaction

\* C36: a tracked structure that is compacted has requestedCompaction set;
\* the compaction pool is allocated from at most once per structure, however
\* often PopulateCompactionCommandList is called with its id; a structure
\* built without the allow-compaction flag never becomes compacted
C36_CompactionOncePerStructure ==
    []C36_CompactedOnlyIfRequested /\ [][C36_RequestKept]_vars

\* a compacted structure with its one sub-allocation of the compaction pool,
\* for which a further call has something it could do wrong (the result
\* memory is released), next to a structure built without the flag
C36_Witness ==
    \E a \in TrackedIds(mgr), b \in TrackedIds(mgr) :
        /\ TrackedStruct(a).isCompacted
        /\ TrackedStruct(a).readyToFree
        /\ Cardinality(CompactionAllocations(mgr.m_asBufferBuildQueue[a + 1])) = 1
        /\ ~TrackedStruct(b).requestedCompaction
        /\ TrackedStruct(b).readyToFree


\* what a call of PopulateUpdateCommandList records in its command list
RecordedBuilds(call) ==
    LET commandList ==
            PopulateUpdateCommandList(mgr, call.asInputs, call.accelStructIds).commandList
    IN  {commandList[i] : i \in 1..Len(commandList)}

\* C37: every build that PopulateUpdateCommandList records, an update or a
\* rebuild, has a destination and a scratch memory that are live when it is
\* recorded, also for a structure compacted and garbage-collected before
C37_UpdateUsesLiveMemory ==
    \A call \in UpdateCalls :
        \A buildDesc \in RecordedBuilds(call) :
            buildDesc.scratchIsLive /\ buildDesc.destIsLive

====
